---------------------------- MODULE Spec2Model ----------------------------
(***************************************************************************)
(* PdfColorChanger: PDFProcessor (models/pdf_processor.py), the color      *)
(* scheme registry (models/color_schemes.py) and the MainWindow with its   *)
(* ConversionWorker thread (views/main_window.py).                         *)
(*                                                                         *)
(* Text is a sequence of Unicode code points (integers).  A color is a     *)
(* triple of numerators over 255: hex_to_rgb divides each byte by 255.0,   *)
(* so <<0,0,0>> is the tuple (0, 0, 0) and <<255,255,255>> is (1.0, 1.0,   *)
(* 1.0).                                                                   *)
(***************************************************************************)
EXTENDS Integers, Sequences, FiniteSets, TLC

\* ------------------------------------------------------------------ bounds
MaxTextLen == 3
MaxSpans == 3
MaxPages == 2

\* ------------------------------------------------------- python built-ins
\* None as the value of an object-typed name (a document, a scheme, a bbox).
None == [kind |-> "None"]
\* None as the value of a string-typed name (current_path, current_file).
NoPath == "<None>"

\* str.strip() with no argument removes leading and trailing whitespace.
Whitespace == {9, 10, 11, 12, 13, 32, 133, 160}

RECURSIVE lstrip(_)
lstrip(text) ==
    IF text # <<>> /\ Head(text) \in Whitespace THEN lstrip(Tail(text)) ELSE text

RECURSIVE rstrip(_)
rstrip(text) ==
    IF text # <<>> /\ text[Len(text)] \in Whitespace
    THEN rstrip(SubSeq(text, 1, Len(text) - 1))
    ELSE text

strip(text) == rstrip(lstrip(text))

\* A replace that stops after the first occurrence (str.replace(old, new, 1)).
replace_first(text, old, new) ==
    IF \E i \in 1..Len(text) : text[i] = old
    THEN LET i == CHOOSE j \in 1..Len(text) :
                      text[j] = old /\ \A k \in 1..j - 1 : text[k] # old
         IN  SubSeq(text, 1, i - 1) \o new \o SubSeq(text, i + 1, Len(text))
    ELSE text

\* str.replace(old, new) for a one-code-point old: every occurrence, left to right.
RECURSIVE replace(_, _, _)
replace(text, old, new) ==
    IF text = <<>> THEN <<>>
    ELSE (IF Head(text) = old THEN new ELSE <<Head(text)>>) \o replace(Tail(text), old, new)

\* "".join(parts)
RECURSIVE join(_)
join(parts) ==
    IF parts = <<>> THEN <<>> ELSE Head(parts) \o join(Tail(parts))

\* ------------------------------------------------- color_schemes.py
HexDigits ==
    [c \in {"0","1","2","3","4","5","6","7","8","9","A","B","C","D","E","F"} |->
        CASE c = "0" -> 0 [] c = "1" -> 1 [] c = "2" -> 2 [] c = "3" -> 3
          [] c = "4" -> 4 [] c = "5" -> 5 [] c = "6" -> 6 [] c = "7" -> 7
          [] c = "8" -> 8 [] c = "9" -> 9 [] c = "A" -> 10 [] c = "B" -> 11
          [] c = "C" -> 12 [] c = "D" -> 13 [] c = "E" -> 14 [] c = "F" -> 15]

RECURSIVE lstrip_hash(_)
lstrip_hash(hex_color) ==
    IF hex_color # <<>> /\ Head(hex_color) = "#" THEN lstrip_hash(Tail(hex_color))
    ELSE hex_color

int16(two) == 16 * HexDigits[two[1]] + HexDigits[two[2]]

\* The three components, each a numerator over 255.
hex_to_rgb(hex_color) ==
    LET h == lstrip_hash(hex_color)
    IN  <<int16(SubSeq(h, 1, 2)), int16(SubSeq(h, 3, 4)), int16(SubSeq(h, 5, 6))>>

COLOR_SCHEMES ==
    [n \in {"Dark Mode", "Sepia", "High Contrast", "Green Tint"} |->
        CASE n = "Dark Mode" ->
               [name |-> "Dark Mode",
                background_rgb |-> hex_to_rgb(<<"#","2","D","2","D","2","D">>),
                text_rgb |-> hex_to_rgb(<<"#","F","F","F","F","F","F">>)]
          [] n = "Sepia" ->
               [name |-> "Sepia Reading",
                background_rgb |-> hex_to_rgb(<<"#","D","E","B","8","8","7">>),
                text_rgb |-> hex_to_rgb(<<"#","8","B","4","5","1","3">>)]
          [] n = "High Contrast" ->
               [name |-> "High Contrast",
                background_rgb |-> hex_to_rgb(<<"#","F","F","F","F","F","F">>),
                text_rgb |-> hex_to_rgb(<<"#","0","0","0","0","0","0">>)]
          [] n = "Green Tint" ->
               [name |-> "Green Tint",
                background_rgb |-> hex_to_rgb(<<"#","E","6","F","3","E","6">>),
                text_rgb |-> hex_to_rgb(<<"#","2","D","5","A","2","D">>)]]

get_scheme_names == DOMAIN COLOR_SCHEMES

\* A lookup that falls back to a default scheme for an unknown name.
scheme_or_default(name) ==
    IF name \in DOMAIN COLOR_SCHEMES THEN COLOR_SCHEMES[name]
    ELSE COLOR_SCHEMES["High Contrast"]

\* dict.get: the record, or None for a name that is no key.
get_scheme(name) ==
    IF name \in DOMAIN COLOR_SCHEMES THEN COLOR_SCHEMES[name] ELSE None

\* ------------------------------------- character table, lines 124-138
\* The dict in insertion order: <<code point, replacement string>>.
problematic_chars ==
    << <<305, <<105>>>>,     \* U+0131 -> i
       <<304, <<73>>>>,      \* U+0130 -> I
       <<287, <<103>>>>,     \* U+011F -> g
       <<286, <<71>>>>,      \* U+011E -> G
       <<351, <<115>>>>,     \* U+015F -> s
       <<350, <<83>>>>,      \* U+015E -> S
       <<8211, <<45>>>>,     \* U+2013 -> -
       <<8226, <<8226>>>>,   \* U+2022 -> U+2022 (the literal in the source is the bullet itself)
       <<8217, <<39>>>> >>   \* U+2019 -> '

\* The loop of lines 137-138 from table entry k on.
RECURSIVE apply_replacements(_, _)
apply_replacements(text, k) ==
    IF k > Len(problematic_chars) THEN text
    ELSE apply_replacements(
             replace(text, problematic_chars[k][1], problematic_chars[k][2]), k + 1)

sanitize(text) == apply_replacements(text, 1)


\* ------------------------------------------- extracted layout (text_dict)
\* A span is [text, bbox, size]; a line is [spans]; a text block has the key
\* "lines", an image block has not; a source page is [width, height, blocks].
ImageBlock == [type |-> 1]
TextBlock(lines) == [type |-> 0, lines |-> lines]

SeqsUpTo(S, n) == UNION {[1..k -> S] : k \in 0..n}

\* ------------------------------------ convert_colors, lines 100-104
BLACK == <<0, 0, 0>>

\* A text color taken from the scheme record for every scheme.
text_color_from_scheme(name, scheme) == scheme.text_rgb

text_color_of(name, scheme) ==
    IF name = "Dark Mode" THEN scheme.text_rgb ELSE BLACK

\* ------------------------------------ convert_colors, lines 109-175
\* A call made on the new page.  raised: the call raised an exception.
InsertText(point, text, fontsize, color, raised) ==
    [op |-> "insert_text", point |-> point, text |-> text,
     fontsize |-> fontsize, color |-> color, raised |-> raised]

DrawRect(rect, fill) ==
    [op |-> "draw_rect", rect |-> rect, fill |-> fill, raised |-> FALSE]

\* A span loop that takes the line's position and size from every span it
\* keeps, so that the last one wins.
RECURSIVE collect_spans_last_wins(_, _, _)
collect_spans_last_wins(spans, k, acc) ==
    IF k > Len(spans) THEN acc
    ELSE IF strip(spans[k].text) # <<>>
    THEN collect_spans_last_wins(spans, k + 1,
             [parts    |-> Append(acc.parts, sanitize(spans[k].text)),
              bbox     |-> spans[k].bbox,
              fontsize |-> spans[k].size])
    ELSE collect_spans_last_wins(spans, k + 1, acc)

\* Lines 111-148: the loop over the spans of a line from span k on.
\* acc = [parts, bbox, fontsize] is line_text_parts, line_bbox, line_fontsize.
RECURSIVE collect_spans(_, _, _)
collect_spans(spans, k, acc) ==
    IF k > Len(spans) THEN acc
    ELSE LET span == spans[k]
             text == span.text
         IN  IF strip(text) # <<>>
             THEN collect_spans(spans, k + 1,
                      [parts    |-> Append(acc.parts, sanitize(text)),
                       bbox     |-> IF acc.bbox = None THEN span.bbox ELSE acc.bbox,
                       fontsize |-> IF acc.bbox = None THEN span.size ELSE acc.fontsize])
             ELSE collect_spans(spans, k + 1, acc)

\* Lines 164-175: the per-span fallback from span k on.  fails is the set of
\* span indices whose insert_text raises.
RECURSIVE fallback_spans(_, _, _, _)
fallback_spans(spans, k, text_color, fails) ==
    IF k > Len(spans) THEN <<>>
    ELSE LET span == spans[k]
             text == span.text
         IN  (IF strip(text) # <<>>
              THEN <<InsertText(<<span.bbox[1], span.bbox[2]>>, text, span.size,
                                text_color, k \in fails)>>
              ELSE <<>>)
             \o fallback_spans(spans, k + 1, text_color, fails)

\* Lines 109-175 for one line: the calls made on the new page, in order.
\* fail = [line |-> the single-run insert_text raises, spans |-> the span
\* indices whose fallback insert_text raises].
process_line(line, text_color, fail) ==
    LET acc == collect_spans(line.spans, 1,
                   [parts |-> <<>>, bbox |-> None, fontsize |-> 12])
    IN  IF acc.parts # <<>> /\ acc.bbox # None /\ acc.bbox # <<>>
        THEN LET complete_line_text == join(acc.parts)
             IN  <<InsertText(<<acc.bbox[1], acc.bbox[2]>>, complete_line_text,
                              acc.fontsize, text_color, fail.line)>>
                 \o (IF fail.line
                     THEN fallback_spans(line.spans, 1, text_color, fail.spans)
                     ELSE <<>>)
        ELSE <<>>

FailModes(n) == {[line |-> l, spans |-> s] : l \in BOOLEAN, s \in SUBSET (1..n)}


\* Lines 107-109: the blocks of text_dict from block b on, and the lines of a
\* text block from line l on.  oracle[<<b, l>>] is the fail record of a line.
RECURSIVE process_lines(_, _, _, _, _)
process_lines(lines, b, l, text_color, oracle) ==
    IF l > Len(lines) THEN <<>>
    ELSE process_line(lines[l], text_color, oracle[<<b, l>>])
         \o process_lines(lines, b, l + 1, text_color, oracle)

RECURSIVE process_blocks(_, _, _, _)
process_blocks(blocks, b, text_color, oracle) ==
    IF b > Len(blocks) THEN <<>>
    ELSE (IF "lines" \in DOMAIN blocks[b]
          THEN process_lines(blocks[b].lines, b, 1, text_color, oracle)
          ELSE <<>>)
         \o process_blocks(blocks, b + 1, text_color, oracle)

LinePositions(blocks) ==
    UNION {{<<b, l>> : l \in 1..Len(blocks[b].lines)} :
              b \in {x \in 1..Len(blocks) : "lines" \in DOMAIN blocks[x]}}

\* Lines 75-78: new_doc.new_page(width=..., height=...).
new_page_swapped(source_page) ==
    [width |-> source_page.height, height |-> source_page.width, calls |-> <<>>]

new_page(source_page) ==
    [width |-> source_page.width, height |-> source_page.height, calls |-> <<>>]

\* Lines 81-86: draw_rect(new_page.rect, fill=scheme['background_rgb']).
draw_background(page, scheme) ==
    [page EXCEPT !.calls =
        Append(@, DrawRect(<<0, 0, page.width, page.height>>, scheme.background_rgb))]

\* A page loop that fills the background after the text.
convert_page_rect_last(source_page, name, scheme, oracle) ==
    LET page == new_page(source_page)
        text_color == text_color_of(name, scheme)
        texts == process_blocks(source_page.blocks, 1, text_color, oracle)
    IN  draw_background([page EXCEPT !.calls = @ \o texts], scheme)

\* Lines 72-175: one iteration of the page loop, when nothing raises out of it.
convert_page(source_page, name, scheme, oracle) ==
    LET page == draw_background(new_page(source_page), scheme)
        text_color == text_color_of(name, scheme)
    IN  [page EXCEPT !.calls =
            @ \o process_blocks(source_page.blocks, 1, text_color, oracle)]

\* ---------------------------------------------------------- input domains
\* Code points: the nine keys of the table, three of its replacements (i, s, '),
\* a space and an unmapped letter (a).
SanAlphabet == {305, 304, 287, 286, 351, 350, 8211, 8226, 8217, 105, 115, 39, 32, 97}
SanTexts == SeqsUpTo(SanAlphabet, MaxTextLen)

Geoms == {[bbox |-> <<50, 100, 80, 110>>, size |-> 10],
          [bbox |-> <<90, 102, 130, 116>>, size |-> 14]}
SpanTexts == {<<>>, <<32>>, <<97>>, <<305>>, <<32, 351>>, <<8226, 32>>}
Spans == {[text |-> t, bbox |-> g.bbox, size |-> g.size] : t \in SpanTexts, g \in Geoms}
Lines == {[spans |-> ss] : ss \in SeqsUpTo(Spans, MaxSpans)}

\* "a " then U+0130; a blank span then U+015F.
LineA == [spans |-> <<[text |-> <<97, 32>>, bbox |-> <<50, 100, 80, 110>>, size |-> 10],
                      [text |-> <<304>>, bbox |-> <<90, 102, 130, 116>>, size |-> 14]>>]
LineB == [spans |-> <<[text |-> <<32>>, bbox |-> <<50, 100, 80, 110>>, size |-> 10],
                      [text |-> <<351>>, bbox |-> <<90, 102, 130, 116>>, size |-> 14]>>]
PageSet ==
    {[width |-> 595, height |-> 842, blocks |-> <<>>],
     [width |-> 842, height |-> 595, blocks |-> <<ImageBlock>>],
     [width |-> 595, height |-> 842, blocks |-> <<TextBlock(<<LineA>>)>>],
     [width |-> 612, height |-> 792, blocks |-> <<ImageBlock, TextBlock(<<LineB>>)>>]}
DocSet == SeqsUpTo(PageSet, MaxPages) \ {<<>>}

InPaths == {"in.pdf", "junk.pdf"}
OutPaths == {"out.pdf"}
Paths == InPaths \cup OutPaths
SchemeArgs == get_scheme_names \cup {"Solarized"}

\* A file: absent, a complete PDF, a partly written PDF, or not a PDF.
Absent == [kind |-> "absent"]
Partial == [kind |-> "partial"]
Junk == [kind |-> "junk"]
Pdf(pages) == [kind |-> "pdf", pages |-> pages]

\* ------------------------------------------------------------------ state
VARIABLES
    fs,                 \* the files: path -> file
    current_doc,        \* PDFProcessor.current_doc: None or a Document
    current_path,       \* PDFProcessor.current_path
    result,             \* how the last open_pdf / close_pdf call ended
    outcome,            \* how the last convert_colors call ended
    pc,                 \* position of the convert_colors call (of the worker thread)
    scheme_name,        \* convert_colors arguments
    output_path,
    source_doc,         \* convert_colors locals
    new_doc,
    page_num,
    current_file,       \* MainWindow.current_file
    conversion_worker,  \* MainWindow.conversion_worker: None or the worker
    convert_button,     \* isEnabled() of the three controls
    browse_button,
    scheme_combo,
    progress_label,
    preview_label,
    message_box,        \* the last QMessageBox shown
    signals,            \* queued worker signals, not yet delivered to their slots
    ui_pc,              \* position of the GUI thread
    san_in, san_out,    \* the sanitizer applied to one text
    line_in, line_out   \* the line reconstruction applied to one line

procVars == <<current_doc, current_path, result>>
callVars == <<pc, scheme_name, output_path, source_doc, new_doc, page_num, outcome>>
uiVars == <<current_file, conversion_worker, convert_button, browse_button,
            scheme_combo, progress_label, preview_label, message_box, signals, ui_pc>>
unitVars == <<san_in, san_out, line_in, line_out>>
vars == <<fs, procVars, callVars, uiVars, unitVars>>


\* ------------------------------------------------- the PDF library (fitz)
Document(path, pages) ==
    [kind |-> "doc", name |-> path, pages |-> pages, is_closed |-> FALSE]

Closed(doc) == [doc EXCEPT !.is_closed = TRUE]

\* fitz.open(path) opens a PDF file; fitz.open() and fitz.open(None) make a
\* new empty document; anything else raises.
CanOpen(path) == path = NoPath \/ fs[path].kind = "pdf"
Opened(path) ==
    IF path = NoPath THEN Document(NoPath, <<>>) ELSE Document(path, fs[path].pages)

\* bool(obj) in "if self.current_doc".  None is false.  A Document has __len__
\* (its page count); for a closed Document the source does not decide between
\* plain object truth and the library raising, so both are outcomes.
Truth(obj) ==
    IF obj = None THEN {"False"}
    ELSE IF obj.is_closed THEN {"True", "raise"}
    ELSE IF Len(obj.pages) > 0 THEN {"True"} ELSE {"False"}

\* doc.close(): closing a closed Document may raise.
CloseOutcomes(doc) == IF doc.is_closed THEN {"ok", "raise"} ELSE {"ok"}

\* "if self.current_doc: self.current_doc.close()" (lines 19-20, 30-31):
\* the outcomes [raised, entered, doc].
test_and_close(doc) ==
    {[raised |-> TRUE, entered |-> FALSE, doc |-> doc] : t \in Truth(doc) \cap {"raise"}}
    \cup {[raised |-> FALSE, entered |-> FALSE, doc |-> doc] : t \in Truth(doc) \cap {"False"}}
    \cup UNION {{[raised  |-> c = "raise", entered |-> TRUE,
                  doc     |-> IF c = "raise" THEN doc ELSE Closed(doc)] :
                    c \in CloseOutcomes(doc)} : t \in Truth(doc) \cap {"True"}}

\* ------------------------------------------------ PDFProcessor, lines 16-33
OpenResult(call, raised) == [call |-> call, raised |-> raised]

open_pdf(file_path) ==
    \E o \in test_and_close(current_doc) :
        IF o.raised
        THEN /\ UNCHANGED <<current_doc, current_path>>
             /\ result' = OpenResult("open_pdf", TRUE)
        ELSE IF CanOpen(file_path)
        THEN /\ current_doc' = Opened(file_path)
             /\ current_path' = file_path
             /\ result' = OpenResult("open_pdf", FALSE)
        ELSE /\ current_doc' = o.doc
             /\ UNCHANGED current_path
             /\ result' = OpenResult("open_pdf", TRUE)

close_pdf ==
    \E o \in test_and_close(current_doc) :
        /\ current_doc' = IF o.entered /\ ~o.raised THEN None ELSE current_doc
        /\ current_path' = IF o.entered /\ ~o.raised THEN NoPath ELSE current_path
        /\ result' = OpenResult("close_pdf", o.raised)

\* Lines 188-195.
is_valid_pdf(file_path) == file_path # NoPath /\ fs[file_path].kind = "pdf"

\* Lines 41-53 with the default page_num = 0: image bytes, or None.
get_preview_image ==
    IF current_doc = None THEN "None"
    ELSE IF current_doc.is_closed THEN "raise"
    ELSE IF Len(current_doc.pages) = 0 THEN "None" ELSE "png"

\* ------------------------------------------- convert_colors, lines 55-186
\* pc is the line the call stands at: "l57" (the two checks), "l66" (opening
\* the two documents), "l71" (the head of the page loop), "l178" (save),
\* "saving" (inside save, the file created), "l179" (the two closes), "l184"
\* (the except clause); "returned" and "raised" when the call has ended.
Returned == [raised |-> FALSE, error |-> ""]
Raised(error) == [raised |-> TRUE, error |-> error]
Pending == [raised |-> FALSE, error |-> "pending"]

ErrNoDocument == "No PDF document loaded"
ErrUnknownScheme == "Color scheme not found"
ErrDocumentClosed == "document closed"
ErrConversion == "Color conversion failed"

\* The call is made: the arguments are bound, the locals are not yet.
enter_convert_colors(name, path, at) ==
    /\ pc' = at
    /\ scheme_name' = name
    /\ output_path' = path
    /\ source_doc' = None
    /\ new_doc' = None
    /\ page_num' = 0
    /\ outcome' = Pending

\* Lines 57-62.
CC_Check ==
    /\ pc = "l57"
    /\ \E t \in Truth(current_doc) :
          IF t = "raise"
          THEN pc' = "raised" /\ outcome' = Raised(ErrDocumentClosed)
          ELSE IF t = "False"
          THEN pc' = "raised" /\ outcome' = Raised(ErrNoDocument)
          ELSE IF get_scheme(scheme_name) = None
          THEN pc' = "raised" /\ outcome' = Raised(ErrUnknownScheme)
          ELSE pc' = "l66" /\ UNCHANGED outcome
    /\ UNCHANGED <<fs, procVars, scheme_name, output_path, source_doc, new_doc,
                   page_num, uiVars, unitVars>>

\* Lines 66-69.  fitz.open(self.current_path) may raise for a file that has
\* become unreadable.
CC_Open ==
    /\ pc = "l66"
    /\ \E readable \in BOOLEAN :
          IF readable /\ CanOpen(current_path)
          THEN /\ source_doc' = Opened(current_path)
               /\ new_doc' = Document(NoPath, <<>>)
               /\ pc' = IF Len(Opened(current_path).pages) = 0 THEN "l178" ELSE "l71"
          ELSE /\ pc' = "l184"
               /\ UNCHANGED <<source_doc, new_doc>>
    /\ page_num' = 0
    /\ UNCHANGED <<fs, procVars, scheme_name, output_path, outcome, uiVars, unitVars>>

MaxOf(S) == IF S = {} THEN 0 ELSE CHOOSE m \in S : \A x \in S : x <= m

\* Which insert_text calls of a page raise: one fail record per line.
Oracles(blocks) ==
    LET pos == LinePositions(blocks)
        n(bl) == Len(blocks[bl[1]].lines[bl[2]].spans)
    IN  {f \in [pos -> FailModes(MaxOf({n(bl) : bl \in pos}))] :
            \A bl \in pos : f[bl].spans \subseteq 1..n(bl)}

\* Lines 71-175: one iteration.  new_page or the extraction (both strategies)
\* may raise; a raising insert_text is caught inside the iteration.
CC_Page ==
    /\ pc = "l71"
    /\ page_num < Len(source_doc.pages)
    /\ LET source_page == source_doc.pages[page_num + 1]
           scheme == get_scheme(scheme_name)
       IN  \/ \* new_page raises
              /\ pc' = "l184"
              /\ UNCHANGED <<new_doc, page_num>>
           \/ \* the extraction raises
              /\ new_doc' = [new_doc EXCEPT !.pages = Append(@,
                     draw_background(new_page(source_page), scheme))]
              /\ pc' = "l184"
              /\ UNCHANGED page_num
           \/ \E oracle \in Oracles(source_page.blocks) :
                 /\ new_doc' = [new_doc EXCEPT !.pages = Append(@,
                        convert_page(source_page, scheme_name, scheme, oracle))]
                 /\ page_num' = page_num + 1
                 /\ pc' = IF page_num + 1 < Len(source_doc.pages)
                          THEN "l71" ELSE "l178"
    /\ UNCHANGED <<fs, procVars, scheme_name, output_path, source_doc, outcome,
                   uiVars, unitVars>>

\* What the model keeps of a written file: its pages' boxes, in order.  (The
\* drawing calls are observed on new_doc.)
PageBoxes(pages) ==
    [i \in 1..Len(pages) |-> [width |-> pages[i].width, height |-> pages[i].height]]

\* Line 178, first half: save creates (or truncates) the output file.  It
\* raises for a document without pages, or when the file cannot be created.
CC_SaveBegin ==
    /\ pc = "l178"
    /\ \E writable \in BOOLEAN :
          IF writable /\ Len(new_doc.pages) > 0
          THEN /\ fs' = [fs EXCEPT ![output_path] = Partial]
               /\ pc' = "saving"
          ELSE /\ pc' = "l184"
               /\ UNCHANGED fs
    /\ UNCHANGED <<procVars, scheme_name, output_path, source_doc, new_doc,
                   page_num, outcome, uiVars, unitVars>>

\* Line 178, second half: the document is written out, or the write raises
\* and leaves what was written so far.
CC_SaveEnd ==
    /\ pc = "saving"
    /\ \E written \in BOOLEAN :
          IF written
          THEN /\ fs' = [fs EXCEPT ![output_path] = Pdf(PageBoxes(new_doc.pages))]
               /\ pc' = "l179"
          ELSE /\ pc' = "l184"
               /\ UNCHANGED fs
    /\ UNCHANGED <<procVars, scheme_name, output_path, source_doc, new_doc,
                   page_num, outcome, uiVars, unitVars>>

\* Lines 179-181.
CC_Close ==
    /\ pc = "l179"
    /\ new_doc' = Closed(new_doc)
    /\ source_doc' = Closed(source_doc)
    /\ pc' = "returned"
    /\ outcome' = Returned
    /\ UNCHANGED <<fs, procVars, scheme_name, output_path, page_num, uiVars, unitVars>>

\* Lines 183-186: no local is named doc_copy, so nothing is closed.
CC_Except ==
    /\ pc = "l184"
    /\ pc' = "raised"
    /\ outcome' = Raised(ErrConversion)
    /\ UNCHANGED <<fs, procVars, scheme_name, output_path, source_doc, new_doc,
                   page_num, uiVars, unitVars>>

ConvertColors == CC_Check \/ CC_Open \/ CC_Page \/ CC_SaveBegin \/ CC_SaveEnd
                 \/ CC_Close \/ CC_Except

\* ----------------------------------------------------------- initial state
InitFiles ==
    \E doc \in DocSet :
        fs = [p \in Paths |-> IF p = "in.pdf" THEN Pdf(doc)
                              ELSE IF p = "junk.pdf" THEN Junk ELSE Absent]

\* PDFProcessor.__init__, lines 12-14.
InitProcessor ==
    /\ current_doc = None
    /\ current_path = NoPath
    /\ result = OpenResult("__init__", FALSE)

InitCall ==
    /\ pc = "idle"
    /\ scheme_name = ""
    /\ output_path = NoPath
    /\ source_doc = None
    /\ new_doc = None
    /\ page_num = 0
    /\ outcome = Pending

\* MainWindow.__init__ and init_ui, lines 41-129.
InitWindow ==
    /\ current_file = NoPath
    /\ conversion_worker = None
    /\ convert_button = FALSE
    /\ browse_button = TRUE
    /\ scheme_combo = TRUE
    /\ progress_label = ""
    /\ preview_label = "Select a PDF file to see preview"
    /\ message_box = ""
    /\ signals = <<>>
    /\ ui_pc = "idle"

InitUnits ==
    /\ san_in = <<>>
    /\ san_out = [done |-> FALSE, text |-> <<>>]
    /\ line_in = [spans |-> <<>>]
    /\ line_out = [done |-> FALSE, calls |-> <<>>]

Init == InitFiles /\ InitProcessor /\ InitCall /\ InitWindow /\ InitUnits

\* --------------------------------- PDFProcessor driven by a sequential caller
Quiescent == pc \in {"idle", "returned", "raised"}

OpenPdf ==
    /\ Quiescent
    /\ \E file_path \in InPaths : open_pdf(file_path)
    /\ UNCHANGED <<fs, callVars, uiVars, unitVars>>

ClosePdf ==
    /\ Quiescent
    /\ close_pdf
    /\ UNCHANGED <<fs, callVars, uiVars, unitVars>>

CallConvertColors ==
    /\ Quiescent
    /\ \E name \in SchemeArgs, path \in OutPaths : enter_convert_colors(name, path, "l57")
    /\ UNCHANGED <<fs, procVars, uiVars, unitVars>>

Next == OpenPdf \/ ClosePdf \/ CallConvertColors \/ ConvertColors

Spec == Init /\ [][Next]_vars

\* --------------------------------------- the character table on its own
InitSan ==
    /\ fs = [p \in Paths |-> Absent]
    /\ InitProcessor /\ InitCall /\ InitWindow
    /\ san_in \in SanTexts
    /\ san_out = [done |-> FALSE, text |-> <<>>]
    /\ line_in = [spans |-> <<>>]
    /\ line_out = [done |-> FALSE, calls |-> <<>>]

Sanitize ==
    /\ ~san_out.done
    /\ san_out' = [done |-> TRUE, text |-> sanitize(san_in)]
    /\ UNCHANGED <<fs, procVars, callVars, uiVars, san_in, line_in, line_out>>

SpecSan == InitSan /\ [][Sanitize]_vars

\* ------------------------------------ the line reconstruction on its own
InitLine ==
    /\ fs = [p \in Paths |-> Absent]
    /\ InitProcessor /\ InitCall /\ InitWindow
    /\ san_in = <<>>
    /\ san_out = [done |-> FALSE, text |-> <<>>]
    /\ line_in \in Lines
    /\ line_out = [done |-> FALSE, calls |-> <<>>, fail |-> [line |-> FALSE, spans |-> {}]]

\* Lines 109-175 for line_in, with the scheme's text color; which calls raise
\* is the environment's choice.
ProcessLine ==
    /\ ~line_out.done
    /\ \E fail \in FailModes(Len(line_in.spans)) :
          line_out' = [done |-> TRUE, fail |-> fail,
                       calls |-> process_line(line_in, BLACK, fail)]
    /\ UNCHANGED <<fs, procVars, callVars, uiVars, san_in, san_out, line_in>>

SpecLine == InitLine /\ [][ProcessLine]_vars

\* ------------------------------------------ MainWindow and ConversionWorker
\* pc = "run": the worker thread is started and run() has not yet begun;
\* "done": run() has emitted conversion_finished and the thread has finished;
\* "killed": the thread was terminated.
Worker == [kind |-> "worker"]
isRunning == pc \notin {"idle", "done", "killed"}

ProgressSignal(message) == [signal |-> "progress_updated", message |-> message]
FinishedSignal(success, message) ==
    [signal |-> "conversion_finished", success |-> success, message |-> message]

\* Lines 131-151, with update_preview (lines 165-184) as called at line 147.
\* The dialog returns a path, or "" when it is cancelled.
BrowseFile ==
    /\ ui_pc = "idle"
    /\ browse_button
    /\ \E file_path \in InPaths \cup {""} :
          IF file_path = ""
          THEN UNCHANGED <<procVars, current_file, convert_button, preview_label,
                           message_box>>
          ELSE IF is_valid_pdf(file_path)
          THEN /\ open_pdf(file_path)
               /\ IF result'.raised
                  THEN /\ message_box' = "Error: Could not open PDF"
                       /\ UNCHANGED <<current_file, convert_button, preview_label>>
                  ELSE /\ current_file' = file_path
                       /\ convert_button' = TRUE
                       /\ preview_label' =
                             IF get_preview_image' = "png" THEN "pixmap"
                             ELSE IF get_preview_image' = "None"
                             THEN "Could not generate preview"
                             ELSE "Preview error"
                       /\ UNCHANGED message_box
          ELSE /\ message_box' = "Invalid File"
               /\ UNCHANGED <<procVars, current_file, convert_button, preview_label>>
    /\ UNCHANGED <<fs, callVars, conversion_worker, browse_button, scheme_combo,
                   progress_label, signals, ui_pc, unitVars>>

\* Lines 186-213.  The save dialog returns a path, or "" when it is cancelled;
\* the scheme is the combo box's current text.
ConvertPdf ==
    /\ ui_pc = "idle"
    /\ convert_button
    /\ IF current_file = NoPath
       THEN /\ message_box' = "No File"
            /\ UNCHANGED <<callVars, conversion_worker, convert_button, browse_button,
                           scheme_combo>>
       ELSE \E path \in OutPaths \cup {""} :
               IF path = ""
               THEN UNCHANGED <<callVars, conversion_worker, convert_button,
                                browse_button, scheme_combo, message_box>>
               ELSE /\ convert_button' = FALSE
                    /\ browse_button' = FALSE
                    /\ scheme_combo' = FALSE
                    /\ conversion_worker' = Worker
                    /\ \E name \in get_scheme_names :
                          enter_convert_colors(name, path, "run")
                    /\ UNCHANGED message_box
    /\ UNCHANGED <<fs, procVars, current_file, progress_label, preview_label,
                   signals, ui_pc, unitVars>>

\* ConversionWorker.run, lines 31-32: the progress signal, then the call.
WorkerRun ==
    /\ pc = "run"
    /\ signals' = Append(signals, ProgressSignal("Converting PDF colors..."))
    /\ pc' = "l57"
    /\ UNCHANGED <<fs, procVars, scheme_name, output_path, source_doc, new_doc,
                   page_num, outcome, current_file, conversion_worker, convert_button,
                   browse_button, scheme_combo, progress_label, preview_label,
                   message_box, ui_pc, unitVars>>

\* A run() that swallows the exception of convert_colors: a failed conversion
\* ends without a conversion_finished signal.
WorkerEmitOnSuccessOnly ==
    /\ pc \in {"returned", "raised"}
    /\ signals' = IF outcome.raised THEN signals
                  ELSE Append(signals,
                           FinishedSignal(TRUE, "Conversion completed successfully!"))
    /\ pc' = "done"
    /\ UNCHANGED <<fs, procVars, scheme_name, output_path, source_doc, new_doc,
                   page_num, outcome, current_file, conversion_worker, convert_button,
                   browse_button, scheme_combo, progress_label, preview_label,
                   message_box, ui_pc, unitVars>>

\* ConversionWorker.run, lines 33-38: convert_colors returned True or raised.
WorkerEmit ==
    /\ pc \in {"returned", "raised"}
    /\ signals' = Append(signals,
           IF outcome.raised THEN FinishedSignal(FALSE, outcome.error)
           ELSE FinishedSignal(TRUE, "Conversion completed successfully!"))
    /\ pc' = "done"
    /\ UNCHANGED <<fs, procVars, scheme_name, output_path, source_doc, new_doc,
                   page_num, outcome, current_file, conversion_worker, convert_button,
                   browse_button, scheme_combo, progress_label, preview_label,
                   message_box, ui_pc, unitVars>>

\* Lines 215-217, the slot of progress_updated.
UpdateProgress ==
    /\ ui_pc = "idle"
    /\ signals # <<>>
    /\ Head(signals).signal = "progress_updated"
    /\ progress_label' = Head(signals).message
    /\ signals' = Tail(signals)
    /\ UNCHANGED <<fs, procVars, callVars, current_file, conversion_worker,
                   convert_button, browse_button, scheme_combo, preview_label,
                   message_box, ui_pc, unitVars>>

\* Lines 219-236, the slot of conversion_finished.
ConversionComplete ==
    /\ ui_pc = "idle"
    /\ signals # <<>>
    /\ Head(signals).signal = "conversion_finished"
    /\ convert_button' = TRUE
    /\ browse_button' = TRUE
    /\ scheme_combo' = TRUE
    /\ progress_label' = ""
    /\ message_box' = IF Head(signals).success THEN "Success"
                      ELSE "Error: Conversion failed"
    /\ conversion_worker' = None
    /\ signals' = Tail(signals)
    /\ UNCHANGED <<fs, procVars, callVars, current_file, preview_label, ui_pc, unitVars>>

\* closeEvent, lines 240-241.
CloseEventClosePdf ==
    /\ ui_pc = "idle"
    /\ close_pdf
    /\ ui_pc' = "closing"
    /\ UNCHANGED <<fs, callVars, current_file, conversion_worker, convert_button,
                   browse_button, scheme_combo, progress_label, preview_label,
                   message_box, signals, unitVars>>

\* closeEvent, lines 242-245: a running worker is terminated where it stands.
CloseEventTerminate ==
    /\ ui_pc = "closing"
    /\ pc' = IF conversion_worker # None /\ isRunning THEN "killed" ELSE pc
    /\ ui_pc' = "closed"
    /\ UNCHANGED <<fs, procVars, scheme_name, output_path, source_doc, new_doc,
                   page_num, outcome, current_file, conversion_worker, convert_button,
                   browse_button, scheme_combo, progress_label, preview_label,
                   message_box, signals, unitVars>>

NextUI == BrowseFile \/ ConvertPdf \/ WorkerRun \/ ConvertColors \/ WorkerEmit
          \/ UpdateProgress \/ ConversionComplete
          \/ CloseEventClosePdf \/ CloseEventTerminate

SpecUI == Init /\ [][NextUI]_vars

\* The started worker thread is scheduled until run() ends or the thread is
\* terminated, and the GUI thread's event loop delivers every queued signal
\* to its slot while the window is open.  The user's own events (browse,
\* convert, close) are under no obligation to happen.
WorkerStep == WorkerRun \/ ConvertColors \/ WorkerEmit
FairUI ==
    /\ WF_vars(WorkerStep)
    /\ WF_vars(UpdateProgress)
    /\ WF_vars(ConversionComplete)

SpecUIFair == SpecUI /\ FairUI

\* =================================================================== claims
InsertCalls(page) == {k \in 1..Len(page.calls) : page.calls[k].op = "insert_text"}
HasTextBlock(source_page) ==
    \E b \in 1..Len(source_page.blocks) : "lines" \in DOMAIN source_page.blocks[b]

\* C1: after a successful convert_colors the written document has as many
\* pages as the source, and its i-th page has the width and the height of
\* the source's i-th page, whichever insertions raised.
C1_PageGeometry ==
    pc = "returned" =>
        /\ fs[output_path].kind = "pdf"
        /\ Len(fs[output_path].pages) = Len(fs[source_doc.name].pages)
        /\ \A i \in 1..Len(fs[output_path].pages) :
              /\ fs[output_path].pages[i].width = fs[source_doc.name].pages[i].width
              /\ fs[output_path].pages[i].height = fs[source_doc.name].pages[i].height

\* C1 witness: a two-page source with pages of different boxes has been
\* converted, and an insertion raised on the way.
C1_Witness ==
    /\ pc = "returned"
    /\ Len(fs["in.pdf"].pages) = 2
    /\ fs["in.pdf"].pages[1].width # fs["in.pdf"].pages[2].width
    /\ fs["in.pdf"].pages[1].width # fs["in.pdf"].pages[1].height
    /\ \E k \in InsertCalls(new_doc.pages[2]) : new_doc.pages[2].calls[k].raised
    /\ fs[output_path].kind = "pdf"

\* C2: when a convert_colors call that opened the source copy or the new
\* document has returned or raised, both are closed.
C2_HandlesReleased ==
    pc \in {"returned", "raised"} =>
        /\ source_doc # None => source_doc.is_closed
        /\ new_doc # None => new_doc.is_closed

\* C3: a partly written file stands at the output destination only while
\* save is running: a conversion that failed or was terminated leaves none.
C3_NoPartialOutput ==
    \A p \in OutPaths : fs[p].kind = "partial" => pc = "saving"

C5_BackgroundFirst ==
    new_doc # None =>
        \A i \in 1..Len(new_doc.pages) :
            LET page == new_doc.pages[i]
            IN  /\ page.calls # <<>>
                /\ page.calls[1] =
                      [op |-> "draw_rect", rect |-> <<0, 0, page.width, page.height>>,
                       fill |-> COLOR_SCHEMES[scheme_name].background_rgb,
                       raised |-> FALSE]
                /\ \A k \in 2..Len(page.calls) : page.calls[k].op = "insert_text"
                /\ ~HasTextBlock(source_doc.pages[i]) => Len(page.calls) = 1

\* C5 witness: a converted document with an image-only page and a page that
\* got text after its background.
C5_Witness ==
    /\ pc = "returned"
    /\ Len(new_doc.pages) = 2
    /\ source_doc.pages[1].blocks = <<ImageBlock>>
    /\ Len(new_doc.pages[1].calls) = 1
    /\ Len(new_doc.pages[2].calls) > 1

\* C6: every text insertion, single-run or per-span, has the light text color
\* of the dark scheme when the scheme is "Dark Mode" and black otherwise.
C6_TextColor ==
    new_doc # None =>
        \A i \in 1..Len(new_doc.pages) :
            \A k \in InsertCalls(new_doc.pages[i]) :
                new_doc.pages[i].calls[k].color =
                    IF scheme_name = "Dark Mode"
                    THEN COLOR_SCHEMES["Dark Mode"].text_rgb
                    ELSE <<0, 0, 0>>

\* C6 witness: a page converted under a scheme that is not the dark one and
\* whose text color is not black, with a single-run insertion that raised and
\* a per-span insertion after it.
C6_Witness ==
    /\ new_doc # None
    /\ scheme_name = "Sepia"
    /\ COLOR_SCHEMES["Sepia"].text_rgb # <<0, 0, 0>>
    /\ Len(new_doc.pages) >= 1
    /\ Cardinality(InsertCalls(new_doc.pages[1])) >= 2
    /\ new_doc.pages[1].calls[2].raised

\* convert_colors is running on the worker thread.
InFlight == pc \in {"l57", "l66", "l71", "l178", "saving", "l179", "l184"}

\* C10: while convert_colors runs on the worker thread, the GUI thread starts
\* no second conversion and makes no open_pdf, preview or close_pdf call on
\* the processor.
C10_ExclusiveOwnership ==
    [][InFlight => ~(BrowseFile \/ ConvertPdf \/ CloseEventClosePdf)]_vars

\* C12: whatever open_pdf, close_pdf and convert_colors calls were made,
\* current_doc is None or a Document that is not closed, and current_path is
\* the path that Document was opened from (None when current_doc is None).
C12_OpenHandleOrNone ==
    Quiescent =>
        IF current_doc = None THEN current_path = NoPath
        ELSE ~current_doc.is_closed /\ current_path = current_doc.name

\* A conversion started from the window is registered and not yet handled.
Started == conversion_worker # None
ControlsEnabled == convert_button /\ browse_button /\ scheme_combo
Handled == conversion_worker = None /\ ControlsEnabled
FinishedQueued ==
    {k \in 1..Len(signals) : signals[k].signal = "conversion_finished"}

\* At most one conversion_finished signal per conversion, emitted when run()
\* has ended, success or a failure with a message; none without a worker.
OneResult ==
    /\ Cardinality(FinishedQueued) <= 1
    /\ \A k \in FinishedQueued :
          /\ pc = "done"
          /\ Started
          /\ signals[k].success \/ signals[k].message # ""
    /\ ~Started => signals = <<>>

\* The step that unregisters the worker is the handling of its result, and it
\* leaves the three controls enabled.
HandledByResult ==
    (Started /\ conversion_worker' = None) =>
        /\ signals # <<>>
        /\ Head(signals).signal = "conversion_finished"
        /\ signals' = Tail(signals)
        /\ ControlsEnabled'

\* C11 as stated: every conversion started from the window is eventually
\* handled: one conversion_finished result has been delivered, the three
\* controls are enabled again and no worker is registered.
C11_EveryConversionHandled == Started ~> Handled

\* C11 as amended: the same unless the window is closed before the result
\* is handled (closeEvent terminates the worker and no result is delivered);
\* and a conversion never has more than one result, the result is a success
\* or a failure with a message, and handling it enables the three controls
\* and unregisters the worker.
C11_HandledUnlessClosed ==
    /\ Started ~> (Handled \/ ui_pc # "idle")
    /\ []OneResult
    /\ [][HandledByResult]_vars

\* C11 witness: a conversion that failed has had its result handled: the
\* error box is up, the controls are enabled and no worker is registered.
C11_Witness ==
    /\ pc = "done"
    /\ outcome.raised
    /\ outcome.error # ""
    /\ message_box = "Error: Conversion failed"
    /\ Handled
    /\ signals = <<>>
    /\ ui_pc = "idle"

\* The substitution table of the specification, section 4.1, as a map on
\* single code points.
TableKeys == {305, 304, 287, 286, 351, 350, 8211, 8226, 8217}
TableImage(c) ==
    CASE c = 305 -> 105 [] c = 304 -> 73 [] c = 287 -> 103 [] c = 286 -> 71
      [] c = 351 -> 115 [] c = 350 -> 83 [] c = 8211 -> 45 [] c = 8226 -> 8226
      [] c = 8217 -> 39 [] OTHER -> c
Sanitized(text) == [i \in 1..Len(text) |-> TableImage(text[i])]

NonBlank(text) == \E i \in 1..Len(text) : text[i] \notin Whitespace
Kept(spans) == {i \in 1..Len(spans) : NonBlank(spans[i].text)}
NonEmpty(spans) == {i \in 1..Len(spans) : spans[i].text # <<>>}
First(S) == CHOOSE i \in S : \A j \in S : i <= j

\* The concatenation, in span order, of the table images of the spans in idx.
RECURSIVE Concat(_, _, _)
Concat(spans, idx, k) ==
    IF k > Len(spans) THEN <<>>
    ELSE (IF k \in idx THEN Sanitized(spans[k].text) ELSE <<>>) \o Concat(spans, idx, k + 1)

\* The single-run insertion the claim C7 describes for the spans in idx.
SingleRun(spans, idx, call) ==
    /\ call.op = "insert_text"
    /\ call.text = Concat(spans, idx, 1)
    /\ call.point = <<spans[First(idx)].bbox[1], spans[First(idx)].bbox[2]>>
    /\ call.fontsize = spans[First(idx)].size

LineRule(idx) ==
    line_out.done =>
        IF idx # {}
        THEN /\ line_out.calls # <<>>
             /\ SingleRun(line_in.spans, idx, line_out.calls[1])
             /\ line_out.calls[1].raised = line_out.fail.line
             /\ ~line_out.fail.line => Len(line_out.calls) = 1
        ELSE line_out.calls = <<>>

\* C7 as stated: a line with a span whose text is not empty gets exactly one
\* single-run insertion: the concatenation of the sanitized texts of its
\* non-empty spans, at the origin and with the size of the first of them; a
\* line without such a span gets none.
C7_NonEmptySpans == LineRule(NonEmpty(line_in.spans))

\* C7 as amended: the same with "non-empty" read as "holding a code point
\* that is not whitespace": a span of whitespace alone is left out of the
\* run, does not anchor it, and a line of such spans gets no insertion.
C7_NonBlankSpans == LineRule(Kept(line_in.spans))

\* C7 witness: a processed line whose first span is blank and whose run is
\* made of the two spans after it.
C7_Witness ==
    /\ line_out.done
    /\ ~line_out.fail.line
    /\ Len(line_in.spans) = 3
    /\ Kept(line_in.spans) = {2, 3}
    /\ line_in.spans[2].text = <<305>>
    /\ line_in.spans[2].bbox # line_in.spans[1].bbox
    /\ line_in.spans[3].bbox # line_in.spans[2].bbox
    /\ Len(line_out.calls) = 1

\* C8: when the single-run insertion of a line raises, every non-blank span
\* is inserted on its own, in order, at its own origin, with its own size and
\* with its text sanitized; a span whose insertion raises is skipped and the
\* rest go on.
C8_FallbackSanitized ==
    (line_out.done /\ line_out.fail.line /\ Kept(line_in.spans) # {}) =>
        LET spans == line_in.spans
            rest == Tail(line_out.calls)
            kept == Kept(spans)
            nth(n) == CHOOSE i \in kept : Cardinality({j \in kept : j < i}) = n - 1
        IN  /\ Len(rest) = Cardinality(kept)
            /\ \A n \in 1..Len(rest) :
                  /\ rest[n].op = "insert_text"
                  /\ rest[n].point = <<spans[nth(n)].bbox[1], spans[nth(n)].bbox[2]>>
                  /\ rest[n].fontsize = spans[nth(n)].size
                  /\ rest[n].text = Sanitized(spans[nth(n)].text)
                  /\ rest[n].raised = (nth(n) \in line_out.fail.spans)

\* C9 as stated: the output holds none of the nine code points of the table,
\* holds the table's replacement wherever one stood, and every other code
\* point unchanged and in place.
C9_NoMappedCodePoint ==
    san_out.done =>
        /\ Len(san_out.text) = Len(san_in)
        /\ \A i \in 1..Len(san_in) : san_out.text[i] = TableImage(san_in[i])
        /\ \A i \in 1..Len(san_out.text) : san_out.text[i] \notin TableKeys

\* C9 as amended: the output holds none of the eight code points of the table
\* other than U+2022, which the table maps to itself and which stays; it
\* holds the table's replacement wherever a table code point stood, and every
\* other code point unchanged and in place.
C9_TableApplied ==
    san_out.done =>
        /\ Len(san_out.text) = Len(san_in)
        /\ \A i \in 1..Len(san_in) : san_out.text[i] = TableImage(san_in[i])
        /\ \A i \in 1..Len(san_out.text) : san_out.text[i] \notin TableKeys \ {8226}

\* C9 witness: a text with the same table code point twice and an unmapped
\* code point between them has been sanitized.
C9_Witness ==
    /\ san_out.done
    /\ san_in = <<351, 97, 351>>
    /\ san_out.text = <<115, 97, 115>>

=============================================================================
